---- MODULE Spec2Model ----
(***************************************************************************)
(* Model of the btc-algo-trader backtester: the SMA crossover strategy,    *)
(* the ledger of BaseStrategy (cash, positions, trades), the bar loop of   *)
(* BacktestEngine.run_backtest with its metrics and report, and the paged  *)
(* fetch of MarketDataProvider.fetch_historical_data.                      *)
(*                                                                         *)
(* Numbers.  Python floats are modelled as exact rationals <<n, d>> in     *)
(* lowest terms with d > 0.  The parameter values below are dyadic, so the *)
(* sums, products and halvings of the run are exact in binary floating     *)
(* point as well.  NaN (the value pandas' rolling mean gives an incomplete *)
(* window) is the pair <<0, 0>>; every comparison with NaN is false.       *)
(***************************************************************************)
EXTENDS Integers, Sequences, FiniteSets, TLC

\* ------------------------------------------------------------------ bounds
MaxBars == 3
MaxRuns == 2
\* Longest value series handed to _calculate_max_drawdown on its own
MaxPoints == 4
\* Most calls a caller makes to execute_trade itself
MaxCalls == 3
\* Most bars the exchange serves one fetch_historical_data call, over all of
\* its pages
MaxFetched == 3

\* ------------------------------------------------------ rational arithmetic
RECURSIVE GCD(_, _)
GCD(a, b) == IF b = 0 THEN a ELSE GCD(b, a % b)

Abs(x) == IF x < 0 THEN -x ELSE x

Rat(n, d) ==
    LET g == GCD(Abs(n), Abs(d))
        s == IF d < 0 THEN -1 ELSE 1
    IN  <<(s * n) \div g, (s * d) \div g>>

R(k) == <<k, 1>>
Zero == <<0, 1>>
NaN == <<0, 0>>
IsNaN(x) == x[2] = 0

RAdd(x, y) == Rat(x[1] * y[2] + y[1] * x[2], x[2] * y[2])
RSub(x, y) == Rat(x[1] * y[2] - y[1] * x[2], x[2] * y[2])
RMul(x, y) == Rat(x[1] * y[1], x[2] * y[2])
RDiv(x, y) == Rat(x[1] * y[2], x[2] * y[1])

\* Comparisons as IEEE floats compare: false as soon as one side is NaN.
RLE(x, y) == ~IsNaN(x) /\ ~IsNaN(y) /\ x[1] * y[2] <= y[1] * x[2]
RLT(x, y) == ~IsNaN(x) /\ ~IsNaN(y) /\ x[1] * y[2] < y[1] * x[2]
RGE(x, y) == RLE(y, x)
RGT(x, y) == RLT(y, x)
RMin(x, y) == IF RLE(x, y) THEN x ELSE y

\* --------------------------------------------------------------- data model
BUY == "buy"
SELL == "sell"
HOLD == "hold"

\* The symbol hard-coded in the strategy's sizing, and the one main.py trades.
DefaultSymbol == "BTC/USDT"
MainSymbol == "BTC/USD"
Symbols == {DefaultSymbol, MainSymbol}

\* Close prices of the bars, and the constructor arguments explored.
Prices == {R(1), R(2)}
SizingFractions == {<<1, 2>>, <<1, 1>>, <<3, 2>>}
CommissionRates == {<<1, 4>>}
InitialBalances == {R(16)}
\* <<short_window, long_window>>
WindowPairs == {<<1, 2>>, <<1, 3>>}

\* An optional value: <<>> for None, <<v>> for a value.
None == <<>>
Some(v) == <<v>>

\* A price series as fetch_historical_data returns it: one bar per hour,
\* ascending and without duplicates.  Only the columns the core reads.
Bar(t, c) == [timestamp |-> t, close |-> c]
SeriesOfLen(n) ==
    {[k \in 1..n |-> Bar(k, cs[k])] : cs \in [1..n -> Prices]}
PriceSeries == UNION {SeriesOfLen(n) : n \in 0..MaxBars}

Trade(timestamp, sig, price, quantity) ==
    [timestamp |-> timestamp, signal |-> sig, price |-> price,
     quantity |-> quantity, reason |-> IF sig = BUY THEN "Signal: buy"
                                       ELSE "Signal: sell"]

Position(sym, quantity, entry_price, entry_time, cur_price) ==
    [symbol |-> sym, quantity |-> quantity, entry_price |-> entry_price,
     entry_time |-> entry_time, current_price |-> cur_price,
     unrealized_pnl |-> Zero]

NoPositions == [s \in {} |-> Zero]
NoIndicators == [name \in {} |-> <<>>]

VARIABLES
    \* SMACrossoverStrategy / BaseStrategy fields
    short_window, long_window, position_size_pct, initial_balance,
    current_balance, positions, trades, indicators,
    \* BacktestEngine fields
    commission_rate, results,
    \* run_backtest: its position, arguments and locals
    pc, symbol, ohlcv_data, i, current_data, signal, trade,
    portfolio_values, signals,
    \* observers: calls made on this engine, how the last call ended, the
    \* commission debited during the current run, the ledger as the current
    \* run and the current bar found it, and the record a caller kept of an
    \* earlier engine's run
    runs, outcome, commission_debited, run_start, bar_start, first,
    \* a method called on the strategy or the engine by a caller other than
    \* run_backtest: the call and its arguments, the ledger as it found it,
    \* what it returned; and the number of execute_trade calls that have
    \* returned a Trade since the strategy was constructed
    call, before, ret, trades_returned,
    \* fetch_historical_data: arguments and locals, and whether a page
    \* request has raised
    start_date, end_date, current_date, all_data, fetch_failed

strategy_vars == <<short_window, long_window, position_size_pct,
                   initial_balance, current_balance, positions, trades,
                   indicators>>
engine_vars == <<commission_rate, results>>
run_vars == <<pc, symbol, ohlcv_data, i, current_data, signal, trade,
              portfolio_values, signals>>
observer_vars == <<runs, outcome, commission_debited, run_start, bar_start,
                   first>>
api_vars == <<call, before, ret>>
fetch_vars == <<start_date, end_date, current_date, all_data, fetch_failed>>
vars == <<strategy_vars, engine_vars, run_vars, observer_vars, api_vars,
          trades_returned, fetch_vars>>

params_vars == <<short_window, long_window, position_size_pct,
                 initial_balance, commission_rate>>

\* ------------------------------------------------------------- the strategy
RECURSIVE SumCloses(_, _, _)
SumCloses(data, lo, hi) ==
    IF lo > hi THEN Zero
    ELSE RAdd(SumCloses(data, lo, hi - 1), data[hi].close)

\* ohlcv_data['close'].rolling(window).mean() at row j (1-based): NaN until
\* the window is full.
RollingMean(data, window, j) ==
    IF j < window THEN NaN
    ELSE RDiv(SumCloses(data, j - window + 1, j), R(window))

rolling_mean(data, window) ==
    [j \in 1..Len(data) |-> RollingMean(data, window, j)]

Crossover(prev_short, prev_long, current_short, current_long) ==
    IF RLE(prev_short, prev_long) /\ RGT(current_short, current_long)
    THEN BUY
    ELSE IF RGE(prev_short, prev_long) /\ RLT(current_short, current_long)
    THEN SELL
    ELSE HOLD

\* generate_signal as it would be with means over incomplete windows
\* (min_periods=1) and no minimum-data guard
RollingMeanPartial(data, window, j) ==
    LET lo == IF j < window THEN 1 ELSE j - window + 1
    IN  RDiv(SumCloses(data, lo, j), R(j - lo + 1))

generate_signal_partial(data) ==
    LET n == Len(data)
        current_short == RollingMeanPartial(data, short_window, n)
        current_long == RollingMeanPartial(data, long_window, n)
        prev_short == IF n > 1
                      THEN RollingMeanPartial(data, short_window, n - 1)
                      ELSE current_short
        prev_long == IF n > 1 THEN RollingMeanPartial(data, long_window, n - 1)
                     ELSE current_long
    IN  Crossover(prev_short, prev_long, current_short, current_long)

generate_signal(data) ==
    IF Len(data) < long_window THEN HOLD
    ELSE
        LET short_sma == rolling_mean(data, short_window)
            long_sma == rolling_mean(data, long_window)
            n == Len(data)
            current_short == short_sma[n]
            current_long == long_sma[n]
            prev_short == IF n > 1 THEN short_sma[n - 1] ELSE current_short
            prev_long == IF n > 1 THEN long_sma[n - 1] ELSE current_long
        IN  Crossover(prev_short, prev_long, current_short, current_long)

\* The indicators generate_signal leaves stored (lines 33-35): none are
\* stored by a call that returns at the minimum-data guard.
stored_indicators(data) ==
    IF Len(data) < long_window THEN indicators
    ELSE [name \in {"short_sma", "long_sma"} |->
             IF name = "short_sma" THEN rolling_mean(data, short_window)
             ELSE rolling_mean(data, long_window)]

\* calculate_position_size as it would be if a Buy were sized in cash, not
\* in units
calculate_position_size_cash(sig, current_price, available_balance) ==
    IF sig = BUY
    THEN RMul(available_balance, position_size_pct)
    ELSE IF sig = SELL
    THEN IF DefaultSymbol \in DOMAIN positions
         THEN positions[DefaultSymbol].quantity
         ELSE Zero
    ELSE Zero

calculate_position_size(sig, current_price, available_balance) ==
    IF sig = BUY
    THEN RDiv(RMul(available_balance, position_size_pct), current_price)
    ELSE IF sig = SELL
    THEN IF DefaultSymbol \in DOMAIN positions
         THEN positions[DefaultSymbol].quantity
         ELSE Zero
    ELSE Zero

\* --------------------------------------------------------------- the ledger
\* What execute_trade leaves behind: the ledger fields and the return value.
Ledger(balance, pos, trs, returned) ==
    [current_balance |-> balance, positions |-> pos, trades |-> trs,
     returned |-> returned]

Without(pos, sym) == [s \in (DOMAIN pos) \ {sym} |-> pos[s]]
With(pos, sym, p) ==
    [s \in (DOMAIN pos) \cup {sym} |-> IF s = sym THEN p ELSE pos[s]]

\* execute_buy as it would be without the affordability test of line 94
execute_buy_unchecked(tr, sym) ==
    LET cost == RMul(tr.price, tr.quantity)
        pos == IF sym \in DOMAIN positions
               THEN LET existing == positions[sym]
                        total_cost == RAdd(RMul(existing.entry_price,
                                                existing.quantity), cost)
                        total_quantity == RAdd(existing.quantity, tr.quantity)
                    IN  Position(sym, total_quantity,
                                 RDiv(total_cost, total_quantity),
                                 existing.entry_time, tr.price)
               ELSE Position(sym, tr.quantity, tr.price, tr.timestamp,
                             tr.price)
    IN  Ledger(RSub(current_balance, cost), With(positions, sym, pos),
               Append(trades, tr), Some(tr))

\* execute_buy as it would be if a further Buy moved the entry price to the
\* price just paid
execute_buy_last_price(tr, sym) ==
    LET cost == RMul(tr.price, tr.quantity) IN
    IF RLE(cost, current_balance)
    THEN LET pos ==
                 IF sym \in DOMAIN positions
                 THEN Position(sym,
                               RAdd(positions[sym].quantity, tr.quantity),
                               tr.price, positions[sym].entry_time, tr.price)
                 ELSE Position(sym, tr.quantity, tr.price, tr.timestamp,
                               tr.price)
         IN  Ledger(RSub(current_balance, cost), With(positions, sym, pos),
                    Append(trades, tr), Some(tr))
    ELSE Ledger(current_balance, positions, Append(trades, tr), Some(tr))

\* Lines 92-117: a Buy that the cash covers is paid for and opens or averages
\* into the Position; one that it does not cover changes nothing.  The Trade
\* is appended and returned either way (lines 132-133).
execute_buy(tr, sym) ==
    LET cost == RMul(tr.price, tr.quantity) IN
    IF RLE(cost, current_balance)
    THEN LET pos ==
                 IF sym \in DOMAIN positions
                 THEN LET existing == positions[sym]
                          total_cost == RAdd(RMul(existing.entry_price,
                                                  existing.quantity), cost)
                          total_quantity == RAdd(existing.quantity, tr.quantity)
                          avg_price == RDiv(total_cost, total_quantity)
                      IN  Position(sym, total_quantity, avg_price,
                                   existing.entry_time, tr.price)
                 ELSE Position(sym, tr.quantity, tr.price, tr.timestamp,
                               tr.price)
         IN  Ledger(RSub(current_balance, cost), With(positions, sym, pos),
                    Append(trades, tr), Some(tr))
    ELSE Ledger(current_balance, positions, Append(trades, tr), Some(tr))

\* execute_sell as it would be if a Sell with nothing to sell were dropped
execute_sell_dropped(tr, sym) ==
    IF sym \in DOMAIN positions
    THEN LET position == positions[sym]
             sell_quantity == RMin(tr.quantity, position.quantity)
             left == RSub(position.quantity, sell_quantity)
             filled == [tr EXCEPT !.quantity = sell_quantity]
         IN  Ledger(RAdd(current_balance, RMul(tr.price, sell_quantity)),
                    IF RLE(left, Zero)
                    THEN Without(positions, sym)
                    ELSE With(positions, sym,
                              [position EXCEPT !.quantity = left]),
                    Append(trades, filled), Some(filled))
    ELSE Ledger(current_balance, positions, trades, None)

\* execute_sell as it would be if a Position sold out were kept, empty
execute_sell_kept(tr, sym) ==
    IF sym \in DOMAIN positions
    THEN LET position == positions[sym]
             sell_quantity == RMin(tr.quantity, position.quantity)
             left == RSub(position.quantity, sell_quantity)
             filled == [tr EXCEPT !.quantity = sell_quantity]
         IN  Ledger(RAdd(current_balance, RMul(tr.price, sell_quantity)),
                    With(positions, sym, [position EXCEPT !.quantity = left]),
                    Append(trades, filled), Some(filled))
    ELSE Ledger(current_balance, positions, Append(trades, tr), Some(tr))

\* execute_sell as it would be if the requested quantity were credited, not
\* the quantity held
execute_sell_unclamped(tr, sym) ==
    IF sym \in DOMAIN positions
    THEN LET position == positions[sym]
             sell_quantity == RMin(tr.quantity, position.quantity)
             left == RSub(position.quantity, sell_quantity)
             filled == [tr EXCEPT !.quantity = sell_quantity]
         IN  Ledger(RAdd(current_balance, RMul(tr.price, tr.quantity)),
                    IF RLE(left, Zero)
                    THEN Without(positions, sym)
                    ELSE With(positions, sym,
                              [position EXCEPT !.quantity = left]),
                    Append(trades, filled), Some(filled))
    ELSE Ledger(current_balance, positions, Append(trades, tr), Some(tr))

\* Lines 119-130: a Sell against an open Position in sym fills
\* min(requested, held), credits the revenue and removes the Position once
\* nothing is left; the Trade records the filled quantity.  With no Position
\* in sym the Trade is appended as requested and nothing else changes.
execute_sell(tr, sym) ==
    IF sym \in DOMAIN positions
    THEN LET position == positions[sym]
             sell_quantity == RMin(tr.quantity, position.quantity)
             revenue == RMul(tr.price, sell_quantity)
             left == RSub(position.quantity, sell_quantity)
             filled == [tr EXCEPT !.quantity = sell_quantity]
         IN  Ledger(RAdd(current_balance, revenue),
                    IF RLE(left, Zero)
                    THEN Without(positions, sym)
                    ELSE With(positions, sym,
                              [position EXCEPT !.quantity = left]),
                    Append(trades, filled), Some(filled))
    ELSE Ledger(current_balance, positions, Append(trades, tr), Some(tr))

\* execute_trade as it would be without the quantity test of lines 81-82
execute_trade_unsized(sig, price, timestamp, sym) ==
    IF sig = HOLD
    THEN Ledger(current_balance, positions, trades, None)
    ELSE LET quantity == calculate_position_size(sig, price, current_balance)
         IN  IF sig = BUY
             THEN execute_buy(Trade(timestamp, sig, price, quantity), sym)
             ELSE execute_sell(Trade(timestamp, sig, price, quantity), sym)

\* Lines 69-133
execute_trade(sig, price, timestamp, sym) ==
    IF sig = HOLD
    THEN Ledger(current_balance, positions, trades, None)
    ELSE LET quantity == calculate_position_size(sig, price, current_balance)
         IN  IF RLE(quantity, Zero)
             THEN Ledger(current_balance, positions, trades, None)
             ELSE IF sig = BUY
                  THEN execute_buy(Trade(timestamp, sig, price, quantity), sym)
                  ELSE execute_sell(Trade(timestamp, sig, price, quantity), sym)

\* Position.update_price
update_price(position, price) ==
    [position EXCEPT !.current_price = price,
                     !.unrealized_pnl =
                         RMul(RSub(price, position.entry_price),
                              position.quantity)]

\* get_portfolio_value({sym: price}): the value returned and the positions
\* as the call leaves them.
refreshed_positions(sym, price) ==
    [s \in DOMAIN positions |->
        IF s = sym THEN update_price(positions[s], price) ELSE positions[s]]

get_portfolio_value(sym, price) ==
    IF sym \in DOMAIN positions
    THEN RAdd(current_balance, RMul(positions[sym].quantity, price))
    ELSE current_balance

\* ------------------------------------------------------------ the simulator
\* iloc_prefix as it would be if the strategy were handed the whole series
iloc_whole(data, k) == data

\* ohlcv_data.iloc[:k+1] for the 0-based row k
iloc_prefix(data, k) == SubSeq(data, 1, k + 1)

\* pd.Series(values, index=ohlcv_data.index)
WithIndex(values, data) ==
    [k \in 1..Len(values) |->
        [timestamp |-> data[k].timestamp, value |-> values[k]]]

RECURSIVE SumUnrealized(_, _)
SumUnrealized(pos, syms) ==
    IF syms = {} THEN Zero
    ELSE LET s == CHOOSE x \in syms : TRUE
         IN  RAdd(pos[s].unrealized_pnl, SumUnrealized(pos, syms \ {s}))

\* BaseStrategy.get_performance_metrics, evaluated after the valuation's
\* refresh of the positions
get_performance_metrics(sym, price) ==
    LET portfolio_value == get_portfolio_value(sym, price)
        pos == refreshed_positions(sym, price)
        total_trades == Len(trades)
    IN  [initial_balance |-> initial_balance,
         current_balance |-> current_balance,
         portfolio_value |-> portfolio_value,
         total_return |-> RDiv(RSub(portfolio_value, initial_balance),
                               initial_balance),
         total_trades |-> total_trades,
         win_rate |-> IF total_trades > 0 THEN R(1) ELSE Zero,
         unrealized_pnl |-> SumUnrealized(pos, DOMAIN pos)]

\* IEEE division where the divisor may be zero: 0/0 is NaN and x/0 an
\* infinity of the sign of x.
PosInf == <<1, 0>>
NegInf == <<-1, 0>>
FDiv(x, y) ==
    IF y[1] # 0 THEN RDiv(x, y)
    ELSE IF x[1] = 0 THEN NaN
    ELSE IF x[1] < 0 THEN NegInf ELSE PosInf

RMax(x, y) == IF RGE(x, y) THEN x ELSE y

\* portfolio_series.expanding().max()
RECURSIVE expanding_max(_)
expanding_max(v) ==
    IF Len(v) <= 1 THEN v
    ELSE LET front == expanding_max(SubSeq(v, 1, Len(v) - 1))
         IN  Append(front, RMax(front[Len(front)], v[Len(v)]))

\* Series.min(): NaN entries are skipped; NaN when nothing is left.
RECURSIVE series_min(_)
series_min(d) ==
    IF d = <<>> THEN NaN
    ELSE LET rest == series_min(Tail(d))
             x == Head(d)
         IN  IF x = NaN THEN rest
             ELSE IF rest = NaN THEN x
             ELSE IF x = NegInf \/ rest = NegInf THEN NegInf
             ELSE IF x = PosInf THEN rest
             ELSE IF rest = PosInf THEN x
             ELSE RMin(x, rest)

\* _calculate_max_drawdown as it would be if every point were measured
\* against the highest value of the whole series
calculate_max_drawdown_global_peak(portfolio_series) ==
    LET peak == IF portfolio_series = <<>> THEN <<>>
                ELSE expanding_max(portfolio_series)[Len(portfolio_series)]
        drawdown == [t \in 1..Len(portfolio_series) |->
                        FDiv(RSub(portfolio_series[t], peak), peak)]
    IN  series_min(drawdown)

\* BacktestEngine._calculate_max_drawdown
calculate_max_drawdown(portfolio_series) ==
    LET rolling_max == expanding_max(portfolio_series)
        drawdown == [t \in 1..Len(portfolio_series) |->
                        FDiv(RSub(portfolio_series[t], rolling_max[t]),
                             rolling_max[t])]
    IN  series_min(drawdown)

\* 'total_commission_paid' of the result record
total_commission_paid == RMul(R(Len(trades)), commission_rate)

current_bar == ohlcv_data[i + 1]

\* No method has been called from outside run_backtest.
NoCall == [op |-> "none", n |-> 0]

FreshLedger == [current_balance |-> initial_balance,
                positions |-> NoPositions, trades |-> <<>>]
LedgerNow == [current_balance |-> current_balance,
              positions |-> positions, trades |-> trades]

Init ==
    /\ \E w \in WindowPairs : short_window = w[1] /\ long_window = w[2]
    /\ position_size_pct \in SizingFractions
    /\ initial_balance \in InitialBalances
    /\ current_balance = initial_balance
    /\ positions = NoPositions
    /\ trades = <<>>
    /\ indicators = NoIndicators
    /\ commission_rate \in CommissionRates
    /\ results = None
    /\ pc = "idle"
    /\ symbol = DefaultSymbol
    /\ ohlcv_data = <<>>
    /\ i = 0
    /\ current_data = <<>>
    /\ signal = HOLD
    /\ trade = None
    /\ portfolio_values = <<>>
    /\ signals = <<>>
    /\ runs = 0
    /\ outcome = "none"
    /\ commission_debited = Zero
    /\ run_start = FreshLedger
    /\ bar_start = FreshLedger
    /\ first = None
    /\ call = NoCall
    /\ before = FreshLedger
    /\ ret = None
    /\ trades_returned = 0
    /\ start_date = 0
    /\ end_date = 0
    /\ current_date = 0
    /\ all_data = <<>>
    /\ fetch_failed = FALSE

\* What a caller keeps of a completed run: the returned series and the
\* strategy's inspectable state.
RunRecord ==
    [ohlcv_data |-> ohlcv_data, symbol |-> symbol, signals |-> signals,
     portfolio_values |-> portfolio_values, trades |-> trades,
     run_start |-> run_start, runs |-> runs, params |-> params_vars]

\* run_backtest, lines 29-48: the fetch returned a non-empty series
BeginRun ==
    /\ pc = "idle"
    /\ runs < MaxRuns
    /\ \E sym \in Symbols, data \in PriceSeries :
          /\ data # <<>>
          /\ symbol' = sym
          /\ ohlcv_data' = data
    /\ pc' = "signal"
    /\ i' = 0
    /\ current_data' = <<>>
    /\ signal' = HOLD
    /\ trade' = None
    /\ portfolio_values' = <<>>
    /\ signals' = <<>>
    /\ runs' = runs + 1
    /\ outcome' = "running"
    /\ commission_debited' = Zero
    /\ run_start' = LedgerNow
    /\ bar_start' = LedgerNow
    /\ UNCHANGED <<strategy_vars, engine_vars, api_vars, trades_returned>>

StartRun == BeginRun /\ UNCHANGED <<first, fetch_vars>>

\* EmptyData as it would be without the check of lines 41-42: the loop runs
\* over no bar and a result record is stored
EmptyData_ZeroBarResults ==
    /\ pc = "idle"
    /\ runs < MaxRuns
    /\ \E sym \in Symbols : symbol' = sym
    /\ ohlcv_data' = <<>>
    /\ runs' = runs + 1
    /\ outcome' = "error"
    /\ results' = Some([total_trades |-> Len(trades),
                        portfolio_values |-> <<>>, signals |-> <<>>,
                        ohlcv_data |-> <<>>, symbol |-> symbol'])
    /\ UNCHANGED <<strategy_vars, commission_rate, pc, i, current_data,
                   signal, trade, portfolio_values, signals,
                   commission_debited, run_start, bar_start, first, api_vars,
                   trades_returned, fetch_vars>>

\* run_backtest, lines 41-42 and 113-114: the fetch returned no bar and the
\* call raises ValueError
EmptyData ==
    /\ pc = "idle"
    /\ runs < MaxRuns
    /\ \E sym \in Symbols : symbol' = sym
    /\ ohlcv_data' = <<>>
    /\ runs' = runs + 1
    /\ outcome' = "error"
    /\ UNCHANGED <<strategy_vars, engine_vars, pc, i, current_data, signal,
                   trade, portfolio_values, signals, commission_debited,
                   run_start, bar_start, first, api_vars, trades_returned,
                   fetch_vars>>

\* lines 50-57; the trade of the previous bar is dead from here on
GenerateSignal ==
    /\ pc = "signal"
    /\ current_data' = iloc_prefix(ohlcv_data, i)
    /\ signal' = generate_signal(current_data')
    /\ indicators' = stored_indicators(current_data')
    /\ signals' = Append(signals, signal')
    /\ trade' = None
    /\ pc' = IF signal' # HOLD THEN "execute" ELSE "value"
    /\ bar_start' = LedgerNow
    /\ UNCHANGED <<params_vars, current_balance, positions, trades, results,
                   symbol, ohlcv_data, i, portfolio_values, runs, outcome,
                   commission_debited, run_start, first, api_vars,
                   trades_returned, fetch_vars>>

\* lines 60-68
ExecuteTrade ==
    /\ pc = "execute"
    /\ LET r == execute_trade(signal, current_bar.close,
                              current_bar.timestamp, symbol)
       IN  /\ current_balance' = r.current_balance
           /\ positions' = r.positions
           /\ trades' = r.trades
           /\ trade' = r.returned
           /\ pc' = IF r.returned # None THEN "commission" ELSE "value"
           /\ trades_returned' = IF r.returned # None
                                 THEN trades_returned + 1
                                 ELSE trades_returned
    /\ UNCHANGED <<params_vars, indicators, results, symbol, ohlcv_data, i,
                   current_data, signal, portfolio_values, signals,
                   observer_vars, api_vars, fetch_vars>>

\* commission_of as it would be if the fee ignored the notional
commission_of_flat(tr) == commission_rate

\* lines 68-73
commission_of(tr) == RMul(RMul(tr.price, tr.quantity), commission_rate)

ApplyCommission ==
    /\ pc = "commission"
    /\ current_balance' = RSub(current_balance, commission_of(trade[1]))
    /\ commission_debited' = RAdd(commission_debited, commission_of(trade[1]))
    /\ pc' = "value"
    /\ UNCHANGED <<params_vars, indicators, positions, trades, results, symbol,
                   ohlcv_data, i, current_data, signal, trade,
                   portfolio_values, signals, runs, outcome, run_start,
                   bar_start, first, api_vars, trades_returned, fetch_vars>>

\* TrackValue as it would be if the value were recorded on trading bars only
TrackValue_TradingBarsOnly ==
    /\ pc = "value"
    /\ positions' = refreshed_positions(symbol, current_bar.close)
    /\ portfolio_values' =
           IF trade = None THEN portfolio_values
           ELSE Append(portfolio_values,
                       get_portfolio_value(symbol, current_bar.close))
    /\ i' = i + 1
    /\ pc' = IF i + 1 < Len(ohlcv_data) THEN "signal" ELSE "finish"
    /\ UNCHANGED <<params_vars, indicators, current_balance, trades, results,
                   symbol, ohlcv_data, current_data, signal, trade, signals,
                   observer_vars, api_vars, trades_returned, fetch_vars>>

\* lines 75-78, and the loop's advance
TrackValue ==
    /\ pc = "value"
    /\ positions' = refreshed_positions(symbol, current_bar.close)
    /\ portfolio_values' =
           Append(portfolio_values,
                  get_portfolio_value(symbol, current_bar.close))
    /\ i' = i + 1
    /\ pc' = IF i + 1 < Len(ohlcv_data) THEN "signal" ELSE "finish"
    /\ UNCHANGED <<params_vars, indicators, current_balance, trades, results,
                   symbol, ohlcv_data, current_data, signal, trade, signals,
                   observer_vars, api_vars, trades_returned, fetch_vars>>

\* lines 80-111.  The result record carries what the checks read; the
\* Sharpe ratio (a standard deviation scaled by a square root) and the echoed
\* start_date, end_date and timeframe are left out.
Finish ==
    /\ pc = "finish"
    /\ LET last == ohlcv_data[Len(ohlcv_data)].close
           final_metrics == get_performance_metrics(symbol, last)
       IN  /\ positions' = refreshed_positions(symbol, last)
           /\ results' =
                Some([initial_balance |-> final_metrics.initial_balance,
                      current_balance |-> final_metrics.current_balance,
                      portfolio_value |-> final_metrics.portfolio_value,
                      total_return |-> final_metrics.total_return,
                      total_trades |-> final_metrics.total_trades,
                      win_rate |-> final_metrics.win_rate,
                      unrealized_pnl |-> final_metrics.unrealized_pnl,
                      max_drawdown |->
                          calculate_max_drawdown(portfolio_values),
                      portfolio_values |-> WithIndex(portfolio_values,
                                                     ohlcv_data),
                      signals |-> WithIndex(signals, ohlcv_data),
                      ohlcv_data |-> ohlcv_data,
                      total_commission_paid |-> total_commission_paid,
                      symbol |-> symbol])
    /\ pc' = "idle"
    /\ outcome' = "ok"
    /\ UNCHANGED <<params_vars, indicators, current_balance, trades, symbol,
                   ohlcv_data, i, current_data, signal, trade,
                   portfolio_values, signals, runs, commission_debited, run_start, bar_start, first,
                   api_vars, trades_returned, fetch_vars>>

\* A caller that is done with one engine constructs a second strategy and
\* engine (main.py, lines 13-25), keeping what the first run produced.
ConstructSecond ==
    /\ pc = "idle"
    /\ outcome = "ok"
    /\ first = None
    /\ first' = Some(RunRecord)
    /\ \E w \in WindowPairs : short_window' = w[1] /\ long_window' = w[2]
    /\ position_size_pct' \in SizingFractions
    /\ initial_balance' \in InitialBalances
    /\ commission_rate' \in CommissionRates
    /\ current_balance' = initial_balance'
    /\ positions' = NoPositions
    /\ trades' = <<>>
    /\ indicators' = NoIndicators
    /\ results' = None
    /\ pc' = "idle"
    /\ symbol' = DefaultSymbol
    /\ ohlcv_data' = <<>>
    /\ i' = 0
    /\ current_data' = <<>>
    /\ signal' = HOLD
    /\ trade' = None
    /\ portfolio_values' = <<>>
    /\ signals' = <<>>
    /\ runs' = 0
    /\ outcome' = "none"
    /\ commission_debited' = Zero
    /\ run_start' = [current_balance |-> initial_balance',
                     positions |-> NoPositions, trades |-> <<>>]
    /\ bar_start' = run_start'
    /\ call' = NoCall
    /\ before' = run_start'
    /\ ret' = None
    /\ trades_returned' = 0
    /\ UNCHANGED fetch_vars

\* generate_report: the labelled message while no results are stored, else
\* the report's header, the metrics it prints from self.results and the
\* positions it lists.
NoResultsMessage == "No backtest results available. Run backtest first."

generate_report ==
    IF results = None
    THEN [message |-> NoResultsMessage, metrics |-> None,
          positions |-> NoPositions]
    ELSE [message |-> "=== BACKTEST REPORT ===",
          metrics |->
              Some([symbol |-> results[1].symbol,
                    initial_balance |-> results[1].initial_balance,
                    portfolio_value |-> results[1].portfolio_value,
                    total_return |-> results[1].total_return,
                    max_drawdown |-> results[1].max_drawdown,
                    total_trades |-> results[1].total_trades,
                    win_rate |-> results[1].win_rate,
                    total_commission_paid |->
                        results[1].total_commission_paid,
                    unrealized_pnl |-> results[1].unrealized_pnl]),
          positions |->
              [s \in DOMAIN positions |->
                  [quantity |-> positions[s].quantity,
                   entry_price |-> positions[s].entry_price]]]

\* ------------------------------------------------------------- the fetch
\* Dates and bar timestamps are hours; a page is what one fetch_ohlcv call
\* returns: bars of the exchange's choosing, in the exchange's order.
Dates == 1..MaxBars
FetchedBars == {Bar(t, c) : t \in Dates, c \in Prices}
PagesOfLen(n) == [1..n -> FetchedBars]

RECURSIVE Concat(_)
Concat(pages) ==
    IF pages = <<>> THEN <<>> ELSE Head(pages) \o Concat(Tail(pages))

\* ~index.duplicated(keep='last'): the last bar of each timestamp stays
RECURSIVE duplicated_keep_last(_)
duplicated_keep_last(bars) ==
    IF bars = <<>> THEN <<>>
    ELSE IF \E j \in 2..Len(bars) : bars[j].timestamp = bars[1].timestamp
         THEN duplicated_keep_last(Tail(bars))
         ELSE <<Head(bars)>> \o duplicated_keep_last(Tail(bars))

\* combined_df[~combined_df.index.duplicated(keep='first')], line 90
RECURSIVE duplicated_keep_first(_)
duplicated_keep_first(bars) ==
    IF bars = <<>> THEN <<>>
    ELSE LET n == Len(bars)
             front == duplicated_keep_first(SubSeq(bars, 1, n - 1))
         IN  IF \E j \in 1..(n - 1) : bars[j].timestamp = bars[n].timestamp
             THEN front
             ELSE Append(front, bars[n])

\* sort_index, line 91
RECURSIVE sort_index(_)
sort_index(bars) ==
    IF bars = <<>> THEN <<>>
    ELSE LET n == Len(bars)
             front == sort_index(SubSeq(bars, 1, n - 1))
             below == SelectSeq(front,
                          LAMBDA b : b.timestamp <= bars[n].timestamp)
             above == SelectSeq(front,
                          LAMBDA b : b.timestamp > bars[n].timestamp)
         IN  below \o <<bars[n]>> \o above

\* lines 94-95
date_mask(bars, start, end) ==
    SelectSeq(bars, LAMBDA b : b.timestamp >= start /\ b.timestamp <= end)

\* lines 88-100: what fetch_historical_data returns for the pages gathered
combined_df(pages, start, end) ==
    IF pages = <<>> THEN <<>>
    ELSE date_mask(sort_index(duplicated_keep_first(Concat(pages))),
                   start, end)

\* run_backtest, lines 29-39, and fetch_historical_data, lines 59-65
BeginFetch ==
    /\ pc = "idle"
    /\ runs = 0
    /\ symbol' = MainSymbol
    /\ \E start \in Dates, end \in Dates :
          /\ start_date' = start
          /\ end_date' = end
          /\ current_date' = start
    /\ all_data' = <<>>
    /\ fetch_failed' = FALSE
    /\ pc' = "fetch"
    /\ ohlcv_data' = <<>>
    /\ i' = 0
    /\ current_data' = <<>>
    /\ signal' = HOLD
    /\ trade' = None
    /\ portfolio_values' = <<>>
    /\ signals' = <<>>
    /\ runs' = runs + 1
    /\ outcome' = "running"
    /\ commission_debited' = Zero
    /\ run_start' = LedgerNow
    /\ bar_start' = LedgerNow
    /\ UNCHANGED <<strategy_vars, engine_vars, first, api_vars,
                   trades_returned>>

fetch_unchanged ==
    UNCHANGED <<strategy_vars, engine_vars, symbol, ohlcv_data, i,
                current_data, signal, trade, portfolio_values, signals,
                observer_vars, api_vars, trades_returned, start_date,
                end_date>>

\* lines 67-82: a page request that returns bars
FetchPage ==
    /\ pc = "fetch"
    /\ current_date < end_date
    /\ \E n \in 1..(MaxFetched - Len(Concat(all_data))) :
          \E data \in PagesOfLen(n) :
             /\ all_data' = Append(all_data, data)
             /\ current_date' = data[n].timestamp + 1
    /\ UNCHANGED <<pc, fetch_failed>>
    /\ fetch_unchanged

\* lines 76-77: a page request that returns no bar ends the loop
FetchEmptyPage ==
    /\ pc = "fetch"
    /\ current_date < end_date
    /\ pc' = "combine"
    /\ UNCHANGED <<current_date, all_data, fetch_failed>>
    /\ fetch_unchanged

\* lines 84-86 (and fetch_ohlcv, 48-50): a page request that raises is
\* logged and ends the loop
FetchError ==
    /\ pc = "fetch"
    /\ current_date < end_date
    /\ fetch_failed' = TRUE
    /\ pc' = "combine"
    /\ UNCHANGED <<current_date, all_data>>
    /\ fetch_unchanged

\* line 67: the loop ends once current_date has reached end_date
FetchDone ==
    /\ pc = "fetch"
    /\ ~(current_date < end_date)
    /\ pc' = "combine"
    /\ UNCHANGED <<current_date, all_data, fetch_failed>>
    /\ fetch_unchanged

\* lines 88-100, and the assignment of run_backtest's line 34
Combine ==
    /\ pc = "combine"
    /\ ohlcv_data' = combined_df(all_data, start_date, end_date)
    /\ pc' = "fetched"
    /\ UNCHANGED <<strategy_vars, engine_vars, symbol, i, current_data,
                   signal, trade, portfolio_values, signals, observer_vars,
                   api_vars, trades_returned, fetch_vars>>

\* run_backtest, lines 41-48, on what the fetch returned; the locals of the
\* fetch are gone
CheckData ==
    /\ pc = "fetched"
    /\ IF ohlcv_data = <<>>
       THEN pc' = "idle" /\ outcome' = "error"
       ELSE pc' = "signal" /\ outcome' = outcome
    /\ all_data' = <<>>
    /\ UNCHANGED <<strategy_vars, engine_vars, symbol, ohlcv_data, i,
                   current_data, signal, trade, portfolio_values, signals,
                   runs, commission_debited, run_start, bar_start, first,
                   api_vars, trades_returned, start_date, end_date,
                   current_date, fetch_failed>>

\* BaseStrategy.execute_trade called by a caller other than run_backtest,
\* with a signal, price and symbol of its choosing; the n-th call is stamped
\* with the time n.
Signals == {BUY, SELL, HOLD}

CallExecuteTrade ==
    /\ pc = "idle"
    /\ runs = 0
    /\ call.n < MaxCalls
    /\ \E sig \in Signals, price \in Prices, sym \in Symbols :
          LET r == execute_trade(sig, price, call.n + 1, sym) IN
              /\ call' = [op |-> "execute_trade", n |-> call.n + 1,
                          signal |-> sig, price |-> price,
                          timestamp |-> call.n + 1, symbol |-> sym]
              /\ before' = LedgerNow
              /\ current_balance' = r.current_balance
              /\ positions' = r.positions
              /\ trades' = r.trades
              /\ ret' = r.returned
              /\ trades_returned' = IF r.returned # None
                                    THEN trades_returned + 1
                                    ELSE trades_returned
    /\ UNCHANGED <<params_vars, indicators, results, run_vars,
                   observer_vars, fetch_vars>>

\* The value series handed to _calculate_max_drawdown when it is called on
\* its own: up to MaxPoints positive values.
DrawdownValues == {R(90), R(100), R(110), R(120)}
ValueSeries ==
    UNION {[1..n -> DrawdownValues] : n \in 1..MaxPoints}

CallMaxDrawdown ==
    /\ pc = "idle"
    /\ call.op = "none"
    /\ \E v \in ValueSeries :
          /\ call' = [op |-> "_calculate_max_drawdown", n |-> call.n + 1,
                      portfolio_series |-> v]
          /\ ret' = Some(calculate_max_drawdown(v))
    /\ UNCHANGED <<strategy_vars, engine_vars, run_vars, observer_vars,
                   before, trades_returned, fetch_vars>>

Next ==
    \/ StartRun
    \/ EmptyData
    \/ GenerateSignal
    \/ ExecuteTrade
    \/ ApplyCommission
    \/ TrackValue
    \/ Finish

Spec == Init /\ [][Next]_vars

\* Two runs, one after the other, of which the caller keeps the first: the
\* second on the same engine (RunAgain) or on a second engine constructed
\* anew (ConstructSecond, then FirstRun).
FirstRun == runs = 0 /\ StartRun

RunAgain ==
    /\ outcome = "ok"
    /\ first = None
    /\ BeginRun
    /\ first' = Some(RunRecord)
    /\ UNCHANGED fetch_vars

NextTwin ==
    \/ FirstRun
    \/ RunAgain
    \/ GenerateSignal
    \/ ExecuteTrade
    \/ ApplyCommission
    \/ TrackValue
    \/ Finish
    \/ ConstructSecond

SpecTwin == Init /\ [][NextTwin]_vars

\* The ledger driven by a caller: either by execute_trade calls of its own,
\* or by runs of the engine.
LedgerRun == call.op = "none" /\ StartRun

NextLedger ==
    \/ CallExecuteTrade
    \/ LedgerRun
    \/ GenerateSignal
    \/ ExecuteTrade
    \/ ApplyCommission
    \/ TrackValue
    \/ Finish

SpecLedger == Init /\ [][NextLedger]_vars

\* One run of main.py's kind, its series fetched page by page from an
\* exchange that serves what it likes.
InitFetch ==
    /\ Init
    /\ short_window = 1
    /\ long_window = 2
    /\ position_size_pct = <<1, 2>>

NextFetch ==
    \/ BeginFetch
    \/ FetchPage
    \/ FetchEmptyPage
    \/ FetchError
    \/ FetchDone
    \/ Combine
    \/ CheckData
    \/ GenerateSignal
    \/ ExecuteTrade
    \/ ApplyCommission
    \/ TrackValue
    \/ Finish

SpecFetch == InitFetch /\ [][NextFetch]_vars

\* _calculate_max_drawdown called on value series of the caller's choosing.
NextMetrics == CallMaxDrawdown

SpecMetrics == Init /\ [][NextMetrics]_vars

\* ------------------------------------------------------------------ claims
\* The bar being processed, as the checks below read it.
bar_price == current_bar.close
bar_time == current_bar.timestamp
cash_before == bar_start.current_balance
positions_before == bar_start.positions
Completed == pc = "idle" /\ outcome = "ok"
InBar == pc \in {"execute", "commission", "value"}

\* C1: a completed run over N bars leaves a value series and a signal series
\* of exactly N entries each, indexed by the bars' timestamps in order; while
\* the loop runs, each bar has added exactly one signal and one value,
\* whether or not it traded.
C1_OneSignalOneValuePerBar ==
    /\ pc = "signal" => Len(signals) = i /\ Len(portfolio_values) = i
    /\ InBar => Len(signals) = i + 1 /\ Len(portfolio_values) = i
    /\ pc = "finish" =>
          /\ Len(signals) = Len(ohlcv_data)
          /\ Len(portfolio_values) = Len(ohlcv_data)
    /\ Completed =>
          /\ results # None
          /\ Len(results[1].portfolio_values) = Len(ohlcv_data)
          /\ Len(results[1].signals) = Len(ohlcv_data)
          /\ \A k \in 1..Len(ohlcv_data) :
                /\ results[1].portfolio_values[k].timestamp
                       = ohlcv_data[k].timestamp
                /\ results[1].signals[k].timestamp = ohlcv_data[k].timestamp
                /\ results[1].portfolio_values[k].value = portfolio_values[k]
                /\ results[1].signals[k].value = signals[k]

\* A completed run of full length in which one bar traded and others did not.
C1_Witness ==
    /\ Completed
    /\ Len(ohlcv_data) = MaxBars
    /\ Len(trades) > Len(run_start.trades)
    /\ \E k \in 1..Len(signals) : signals[k] = HOLD

\* What the sizing rule asks for on this bar, from the ledger the bar found.
requested_buy == RDiv(RMul(position_size_pct, cash_before), bar_price)
requested_sell ==
    IF DefaultSymbol \in DOMAIN positions_before
    THEN positions_before[DefaultSymbol].quantity
    ELSE Zero
notional(tr) == RMul(tr.price, tr.quantity)

\* The cash execute_trade leaves when it returned the trade tr: a covered Buy
\* is paid, a Sell against a Position in the traded symbol is credited, and
\* nothing else moves cash.
cash_after_execute(tr) ==
    IF tr.signal = BUY
    THEN IF RLE(notional(tr), cash_before)
         THEN RSub(cash_before, notional(tr))
         ELSE cash_before
    ELSE IF symbol \in DOMAIN positions_before
         THEN RAdd(cash_before, notional(tr))
         ELSE cash_before

\* C2: in every bar step cash is debited price x trade.quantity x
\* commission_rate exactly when execute_trade returned a Trade, after
\* execute_trade has finished and on the filled quantity (the clamped one for
\* a Sell against a Position); execute_trade itself debits no commission, and
\* a Hold bar or a none result leaves cash as the bar found it.
C2_CommissionOnReturnedTrade ==
    /\ pc = "execute" => current_balance = cash_before
    /\ pc = "commission" =>
          /\ trade # None
          /\ current_balance = cash_after_execute(trade[1])
    /\ (pc = "value" /\ trade # None) =>
          /\ signal # HOLD
          /\ trade[1].price = bar_price
          /\ current_balance =
                 RSub(cash_after_execute(trade[1]),
                      RMul(RMul(bar_price, trade[1].quantity),
                           commission_rate))
          /\ (signal = SELL /\ symbol \in DOMAIN positions_before) =>
                 trade[1].quantity =
                     RMin(requested_sell, positions_before[symbol].quantity)
    /\ (pc = "value" /\ trade = None) => current_balance = cash_before

\* Commission has been debited for a Sell filled against an open Position.
C2_Witness ==
    /\ pc = "value"
    /\ trade # None
    /\ signal = SELL
    /\ symbol \in DOMAIN positions_before
    /\ RLT(current_balance, cash_after_execute(trade[1]))

\* C3: a Buy executed at price p with cash c and no open Position in the
\* traded symbol is sized q = f x c / p, leaves cash c - p q - p q rate once
\* the commission is debited, and opens a Position of quantity q entered at p.
C3_BuyOpensPosition ==
    (/\ pc = "value"
     /\ signal = BUY
     /\ symbol \notin DOMAIN positions_before
     /\ RGT(requested_buy, Zero)
     /\ RLE(RMul(bar_price, requested_buy), cash_before)) =>
        LET q == requested_buy
            p == bar_price
        IN  /\ trade # None
            /\ trade[1].quantity = q
            /\ current_balance =
                   RSub(RSub(cash_before, RMul(p, q)),
                        RMul(RMul(p, q), commission_rate))
            /\ symbol \in DOMAIN positions
            /\ positions[symbol].quantity = q
            /\ positions[symbol].entry_price = p

C3_Witness ==
    /\ pc = "value"
    /\ signal = BUY
    /\ trade # None
    /\ symbol \notin DOMAIN positions_before
    /\ symbol \in DOMAIN positions
    /\ position_size_pct = <<1, 2>>

\* C4: for every traded symbol, a Sell signal met with an open Position in
\* that symbol is sized to the Position's full quantity: a Sell Trade of that
\* quantity is recorded, the Position is removed and cash is credited price x
\* quantity; the Sell is sized 0 only when the traded symbol has no Position.
C4_SellClosesPosition ==
    (/\ pc \in {"commission", "value"}
     /\ signal = SELL
     /\ symbol \in DOMAIN positions_before) =>
        LET q == positions_before[symbol].quantity IN
            /\ trade # None
            /\ trade[1].signal = SELL
            /\ trade[1].quantity = q
            /\ symbol \notin DOMAIN positions
            /\ trades = Append(bar_start.trades, trade[1])
            /\ pc = "commission" =>
                   current_balance = RAdd(cash_before, RMul(bar_price, q))

\* C5: a Sell whose sizing is q > 0 while the traded symbol has no Position
\* appends exactly one Trade carrying q, returns it and leaves cash and the
\* positions as they were; the simulator then debits price x q x rate.
C5_SellWithoutPosition ==
    (/\ pc \in {"commission", "value"}
     /\ signal = SELL
     /\ symbol \notin DOMAIN positions_before
     /\ RGT(requested_sell, Zero)) =>
        LET t == Trade(bar_time, SELL, bar_price, requested_sell) IN
            /\ trade = Some(t)
            /\ trades = Append(bar_start.trades, t)
            /\ positions = positions_before
            /\ pc = "commission" => current_balance = cash_before
            /\ pc = "value" =>
                   current_balance =
                       RSub(cash_before,
                            RMul(RMul(bar_price, requested_sell),
                                 commission_rate))

C5_Witness ==
    /\ pc = "value"
    /\ signal = SELL
    /\ trade # None
    /\ symbol \notin DOMAIN positions_before
    /\ Len(trades) = Len(bar_start.trades) + 1

\* C6: a Buy whose cost price x quantity exceeds the cash raises no error,
\* leaves cash and the positions unchanged, and still appends the Trade with
\* the requested quantity and returns it.
C6_UnaffordableBuyRecorded ==
    (/\ pc \in {"commission", "value"}
     /\ signal = BUY
     /\ RGT(requested_buy, Zero)
     /\ RGT(RMul(bar_price, requested_buy), cash_before)) =>
        LET t == Trade(bar_time, BUY, bar_price, requested_buy) IN
            /\ trade = Some(t)
            /\ trades = Append(bar_start.trades, t)
            /\ positions = positions_before
            /\ pc = "commission" => current_balance = cash_before

C6_Witness ==
    /\ pc = "commission"
    /\ signal = BUY
    /\ trade # None
    /\ RGT(notional(trade[1]), cash_before)
    /\ Len(trades) = Len(bar_start.trades) + 1

\* C7: on a newly constructed strategy, a non-empty series shorter than the
\* long window gives Hold on every bar, records no Trade, and every portfolio
\* value equals the initial balance.
C7_ShortSeriesAllHold ==
    (/\ runs = 1
     /\ pc # "idle" \/ outcome = "ok"
     /\ Len(ohlcv_data) < long_window) =>
        /\ \A k \in 1..Len(signals) : signals[k] = HOLD
        /\ \A k \in 1..Len(portfolio_values) :
              portfolio_values[k] = initial_balance
        /\ trades = <<>>
        /\ Completed =>
              /\ Len(results[1].signals) = Len(ohlcv_data)
              /\ \A k \in 1..Len(ohlcv_data) :
                    /\ results[1].signals[k].value = HOLD
                    /\ results[1].portfolio_values[k].value = initial_balance

\* A first run over two bars, one short of a long window of three, completed.
C7_Witness ==
    /\ runs = 1
    /\ Completed
    /\ Len(ohlcv_data) = 2
    /\ long_window = 3
    /\ ohlcv_data[1].close # ohlcv_data[2].close

\* C10: the commission total of the result record equals the sum of the
\* commissions debited from cash during the run.
C10_CommissionTotalIsDebited ==
    Completed => results[1].total_commission_paid = commission_debited

\* The run in progress and the recorded run of the first engine started from
\* the same ledger with the same parameters and symbol.
SameSetup ==
    /\ first # None
    /\ pc # "idle" \/ outcome = "ok"
    /\ first[1].params = params_vars
    /\ first[1].symbol = symbol
    /\ first[1].run_start = run_start

\* The two series have the same first k bars.
AgreeUpTo(k) ==
    /\ k <= Len(first[1].ohlcv_data)
    /\ k <= Len(ohlcv_data)
    /\ \A j \in 1..k : first[1].ohlcv_data[j] = ohlcv_data[j]

TradesUpTo(trs, data, k) ==
    SelectSeq(trs, LAMBDA t : t.timestamp <= data[k].timestamp)

\* C9: generate_signal at step i is given exactly bars[0..i]; and two runs
\* from the same ledger and parameters over series that agree on their first
\* k bars produce the same signals and portfolio values at those bars and
\* the same Trades up to bar k.
C9_NoLookAhead ==
    /\ InBar => current_data = SubSeq(ohlcv_data, 1, i + 1)
    /\ SameSetup =>
          \A k \in 1..Len(ohlcv_data) :
             AgreeUpTo(k) =>
                /\ k <= Len(signals) => signals[k] = first[1].signals[k]
                /\ k <= Len(portfolio_values) =>
                      /\ portfolio_values[k] = first[1].portfolio_values[k]
                      /\ TradesUpTo(trades, ohlcv_data, k)
                             = TradesUpTo(first[1].trades,
                                          first[1].ohlcv_data, k)

\* Both runs are complete; their series share two bars and part at the
\* third, where only one of the two runs traded.
C9_Witness ==
    /\ SameSetup
    /\ Completed
    /\ AgreeUpTo(2)
    /\ Len(ohlcv_data) = 3
    /\ Len(first[1].ohlcv_data) = 3
    /\ ~AgreeUpTo(3)
    /\ Len(trades) # Len(first[1].trades)

\* Two completed runs of the strategy with the same parameters over the same
\* bars of the same symbol.
SameRunTwice ==
    /\ first # None
    /\ Completed
    /\ first[1].params = params_vars
    /\ first[1].symbol = symbol
    /\ first[1].ohlcv_data = ohlcv_data

SameOutcome ==
    /\ portfolio_values = first[1].portfolio_values
    /\ signals = first[1].signals
    /\ trades = first[1].trades

\* C8: two runs with identical parameters over an identical bar sequence
\* yield identical Trade histories and value series, the outcome being a
\* function of the bar sequence and the parameters only.
C8_RerunSameOutcome == SameRunTwice => SameOutcome

InLoop == pc \in {"signal", "execute", "commission", "value", "finish"}

\* C11: a call whose price series is empty fails before the strategy is asked
\* for a signal, a trade, a valuation or metrics: the loop never runs over
\* zero bars, the ledger (cash, positions, trades) is as the call found it,
\* and the call stores no result record.
C11_EmptyDataFailsFirst ==
    /\ [](InLoop => ohlcv_data # <<>>)
    /\ [][(runs' = runs + 1 /\ ohlcv_data' = <<>>) =>
             /\ outcome' = "error"
             /\ pc' = "idle"
             /\ UNCHANGED <<current_balance, positions, trades, indicators,
                            results, signals, portfolio_values>>]_vars

\* A call has failed on empty data on a strategy that had traded before.
C11_Witness ==
    /\ outcome = "error"
    /\ ohlcv_data = <<>>
    /\ runs = 2
    /\ trades # <<>>
    /\ positions # NoPositions
    /\ results # None

\* C12: when the most recent run_backtest call on an engine failed,
\* generate_report returns the 'no results' message and no numeric metrics.
C12_FailedRunReportsNoResults ==
    (pc = "idle" /\ outcome = "error") =>
        /\ generate_report.message = NoResultsMessage
        /\ generate_report.metrics = None
\* The claimed drawdown, from its definition: the least over t of
\* (v[t] - max(v[0..t])) / max(v[0..t]).
PeakUpTo(v, t) ==
    CHOOSE m \in {v[k] : k \in 1..t} : \A k \in 1..t : RGE(m, v[k])
DrawdownAt(v, t) == RDiv(RSub(v[t], PeakUpTo(v, t)), PeakUpTo(v, t))
LeastDrawdown(v) ==
    CHOOSE d \in {DrawdownAt(v, t) : t \in 1..Len(v)} :
        \A t \in 1..Len(v) : RLE(d, DrawdownAt(v, t))
NonDecreasing(v) == \A t \in 1..(Len(v) - 1) : RLE(v[t], v[t + 1])
MaxDrawdownCalled == call.op = "_calculate_max_drawdown"

\* C14: for a series of positive values with at least one point, the max
\* drawdown is the least over t of (v[t] - max(v[0..t])) / max(v[0..t]); it
\* is never above 0, it is 0 for a one-point or non-decreasing series, and it
\* is -0.25 for [100, 120, 90, 110].
C14_MaxDrawdown ==
    MaxDrawdownCalled =>
        LET v == call.portfolio_series IN
            /\ ret = Some(LeastDrawdown(v))
            /\ RLE(ret[1], Zero)
            /\ (Len(v) = 1 \/ NonDecreasing(v)) => ret[1] = Zero
            /\ v = <<R(100), R(120), R(90), R(110)>> => ret[1] = <<-1, 4>>

\* The drawdown of the example series has been computed.
C14_Witness ==
    /\ MaxDrawdownCalled
    /\ call.portfolio_series = <<R(100), R(120), R(90), R(110)>>
    /\ ret = Some(<<-1, 4>>)
\* An execute_trade call has just returned, to run_backtest or to a caller of
\* its own: its arguments, the ledger it found and what it returned.
ReturnedToCaller == call.op = "execute_trade"
ReturnedToLoop ==
    \/ pc = "commission"
    \/ pc = "value" /\ signal # HOLD /\ trade = None
Executed == ReturnedToCaller \/ ReturnedToLoop
et_signal == IF ReturnedToCaller THEN call.signal ELSE signal
et_price == IF ReturnedToCaller THEN call.price ELSE bar_price
et_time == IF ReturnedToCaller THEN call.timestamp ELSE bar_time
et_symbol == IF ReturnedToCaller THEN call.symbol ELSE symbol
et_before == IF ReturnedToCaller THEN before ELSE bar_start
et_returned == IF ReturnedToCaller THEN ret ELSE trade

\* The quantity the strategy's sizing gave the call.
et_sized ==
    IF et_signal = BUY
    THEN RDiv(RMul(et_before.current_balance, position_size_pct), et_price)
    ELSE IF et_signal = SELL
    THEN IF DefaultSymbol \in DOMAIN et_before.positions
         THEN et_before.positions[DefaultSymbol].quantity
         ELSE Zero
    ELSE Zero

held(pos, sym) == IF sym \in DOMAIN pos THEN pos[sym].quantity ELSE Zero

\* C15: the position mapping holds one Position per symbol, each of quantity
\* > 0; a Sell that leaves a Position with quantity <= 0 removes it within
\* the same execute_trade call.
C15_PositionsPositive ==
    /\ \A s \in DOMAIN positions :
          /\ positions[s].symbol = s
          /\ RGT(positions[s].quantity, Zero)
    /\ (/\ Executed
        /\ et_signal = SELL
        /\ et_returned # None
        /\ et_symbol \in DOMAIN et_before.positions) =>
           LET left == RSub(et_before.positions[et_symbol].quantity,
                            et_returned[1].quantity)
           IN  /\ RLE(left, Zero) => et_symbol \notin DOMAIN positions
               /\ RGT(left, Zero) =>
                      /\ et_symbol \in DOMAIN positions
                      /\ positions[et_symbol].quantity = left

\* A Sell has sold part of a Position and another has sold one out.
C15_Witness ==
    /\ ReturnedToCaller
    /\ call.signal = SELL
    /\ ret # None
    /\ call.symbol \in DOMAIN before.positions
    /\ call.symbol \in DOMAIN positions
    /\ RLT(positions[call.symbol].quantity,
           before.positions[call.symbol].quantity)

C15_WitnessSoldOut ==
    /\ ReturnedToCaller
    /\ call.signal = SELL
    /\ ret # None
    /\ call.symbol \in DOMAIN before.positions
    /\ call.symbol \notin DOMAIN positions

\* C16: execute_trade appends exactly one Trade, the one it returns, if and
\* only if the signal is not Hold and the sizing is > 0; otherwise it returns
\* none and leaves cash, positions and history as they were.  So the history
\* only grows, by at most one Trade per bar, and total_trades is the number
\* of execute_trade calls that returned a Trade.
C16_OneTradePerSizedSignal ==
    /\ [](Executed =>
            /\ et_returned # None <=>
                   (et_signal # HOLD /\ RGT(et_sized, Zero))
            /\ et_returned # None =>
                   trades = Append(et_before.trades, et_returned[1])
            /\ et_returned = None =>
                   /\ current_balance = et_before.current_balance
                   /\ positions = et_before.positions
                   /\ trades = et_before.trades)
    /\ [](InLoop => Len(trades) <= Len(bar_start.trades) + 1)
    /\ [](Len(trades) = trades_returned)
    /\ [](Completed => results[1].total_trades = trades_returned)
    /\ [][\/ trades' = trades
           \/ /\ Len(trades') = Len(trades) + 1
              /\ SubSeq(trades', 1, Len(trades)) = trades]_vars

\* A Hold call and a Sell sized 0 have returned none on a strategy that has
\* traded, and a sized Buy has been recorded.
C16_Witness ==
    /\ ReturnedToCaller
    /\ call.signal = SELL
    /\ ret = None
    /\ trades # <<>>
    /\ positions # NoPositions

C16_WitnessHold ==
    /\ ReturnedToCaller
    /\ call.signal = HOLD
    /\ ret = None
    /\ trades # <<>>

\* C17: an affordable Buy of q at p into a symbol that holds Q entered at E
\* leaves one Position of quantity Q + q, entry_price (E Q + p q) / (Q + q)
\* and the original entry_time; so entry_price x quantity grows by the cash
\* the Buy spent (and starts at the cash spent by the opening Buy), and a
\* Sell that leaves the Position leaves its entry_price.
C17_CostBasisAverage ==
    (Executed /\ et_returned # None) =>
        LET sym == et_symbol
            p == et_price
            q == et_returned[1].quantity
            old == et_before.positions
            spent == RSub(et_before.current_balance, current_balance)
        IN  /\ (/\ et_signal = BUY
                /\ RLE(RMul(p, q), et_before.current_balance)
                /\ sym \in DOMAIN old) =>
                   /\ sym \in DOMAIN positions
                   /\ positions[sym].quantity = RAdd(old[sym].quantity, q)
                   /\ positions[sym].entry_price =
                          RDiv(RAdd(RMul(old[sym].entry_price,
                                         old[sym].quantity), RMul(p, q)),
                               RAdd(old[sym].quantity, q))
                   /\ positions[sym].entry_time = old[sym].entry_time
                   /\ RMul(positions[sym].entry_price,
                           positions[sym].quantity) =
                          RAdd(RMul(old[sym].entry_price, old[sym].quantity),
                               spent)
            /\ (/\ et_signal = BUY
                /\ RLE(RMul(p, q), et_before.current_balance)
                /\ sym \notin DOMAIN old) =>
                   /\ sym \in DOMAIN positions
                   /\ RMul(positions[sym].entry_price,
                           positions[sym].quantity) = spent
            /\ (et_signal = SELL /\ sym \in DOMAIN positions) =>
                   /\ sym \in DOMAIN old
                   /\ positions[sym].entry_price = old[sym].entry_price

\* A second Buy at another price has moved the entry price between the two.
C17_Witness ==
    /\ ReturnedToCaller
    /\ call.signal = BUY
    /\ ret # None
    /\ call.symbol \in DOMAIN before.positions
    /\ call.symbol \in DOMAIN positions
    /\ before.positions[call.symbol].entry_price = R(1)
    /\ call.price = R(2)
    /\ positions[call.symbol].entry_price = <<6, 5>>

\* The value of the ledger in the traded symbol at price p, and the
\* commission of the bar just valued.
value_at(ledger, sym, p) ==
    RAdd(ledger.current_balance, RMul(held(ledger.positions, sym), p))
Valued == (pc = "signal" /\ i >= 1) \/ pc = "finish" \/ Completed
commission_on_bar == IF trade = None THEN Zero ELSE commission_of(trade[1])

\* C20: every execute_trade call leaves cash + (quantity held in the traded
\* symbol) x price unchanged; so the portfolio value recorded on a bar is the
\* value of the ledger the bar found, at the bar's close, less the commission
\* debited on that bar.
C20_ValueConserved ==
    /\ Executed =>
          value_at(LedgerNow, et_symbol, et_price) =
              value_at(et_before, et_symbol, et_price)
    /\ Valued =>
          portfolio_values[i] =
              RSub(value_at(bar_start, symbol, ohlcv_data[i].close),
                   commission_on_bar)

\* A Sell asked for more than the Position held and was filled with what was
\* there; and a bar that traded has been valued.
C20_Witness ==
    /\ ReturnedToCaller
    /\ call.signal = SELL
    /\ ret # None
    /\ call.symbol \in DOMAIN before.positions
    /\ RLT(ret[1].quantity, et_sized)

C20_WitnessBar ==
    /\ Valued
    /\ trade # None
    /\ positions # NoPositions
    /\ bar_start.positions # NoPositions
\* Cash plus every open Position at the supplied price if its symbol is the
\* priced one, at its own current_price otherwise.
RECURSIVE SumPositions(_, _, _, _)
SumPositions(pos, syms, sym, p) ==
    IF syms = {} THEN Zero
    ELSE LET s == CHOOSE x \in syms : TRUE
             at == IF s = sym THEN p ELSE pos[s].current_price
         IN  RAdd(RMul(pos[s].quantity, at),
                  SumPositions(pos, syms \ {s}, sym, p))

\* C18: get_portfolio_value returns cash plus, over every open Position,
\* quantity x price, the supplied price for a priced symbol and the stale
\* current_price otherwise; it sets current_price and unrealized_pnl of every
\* priced Position, so after each bar step an open Position in the traded
\* symbol has unrealized_pnl = (close - entry_price) x quantity.
C18_ValueCountsEveryPosition ==
    Valued =>
        LET close == ohlcv_data[i].close IN
            /\ portfolio_values[i] =
                   RAdd(current_balance,
                        SumPositions(positions, DOMAIN positions, symbol,
                                     close))
            /\ symbol \in DOMAIN positions =>
                   /\ positions[symbol].current_price = close
                   /\ positions[symbol].unrealized_pnl =
                          RMul(RSub(close, positions[symbol].entry_price),
                               positions[symbol].quantity)

\* The side effect alone, which the valuation does have.
C18_PricedPositionRefreshed ==
    (Valued /\ symbol \in DOMAIN positions) =>
        LET close == ohlcv_data[i].close IN
            /\ positions[symbol].current_price = close
            /\ positions[symbol].unrealized_pnl =
                   RMul(RSub(close, positions[symbol].entry_price),
                        positions[symbol].quantity)
\* The bars gathered, in the order the pages came, and the first bar gathered
\* for a timestamp.
Gathered == Concat(all_data)
FirstSeen(t) ==
    Gathered[CHOOSE k \in 1..Len(Gathered) :
                 /\ Gathered[k].timestamp = t
                 /\ \A j \in 1..(k - 1) : Gathered[j].timestamp # t]
InRange(t) == start_date <= t /\ t <= end_date
SeqRange(q) == {q[k] : k \in 1..Len(q)}

\* C13: the series fetch_historical_data returns has at most one bar per
\* timestamp, the first gathered for it; is sorted ascending by timestamp;
\* and holds exactly the gathered timestamps t with start <= t <= end.
C13_DedupedSortedFiltered ==
    pc = "fetched" =>
        /\ \A j, k \in 1..Len(ohlcv_data) :
              j < k => ohlcv_data[j].timestamp < ohlcv_data[k].timestamp
        /\ SeqRange(ohlcv_data) =
               {FirstSeen(b.timestamp) :
                   b \in {x \in SeqRange(Gathered) : InRange(x.timestamp)}}

\* Two pages gave one timestamp two closes, out of order, with a bar outside
\* the range among them.
C13_Witness ==
    /\ pc = "fetched"
    /\ Len(all_data) = 2
    /\ ohlcv_data # <<>>
    /\ \E j, k \in 1..Len(Gathered) :
          /\ j < k
          /\ Gathered[j].timestamp = Gathered[k].timestamp
          /\ Gathered[j].close # Gathered[k].close
          /\ InRange(Gathered[j].timestamp)
    /\ \E j, k \in 1..Len(Gathered) :
          j < k /\ Gathered[j].timestamp > Gathered[k].timestamp
    /\ \E k \in 1..Len(Gathered) : ~InRange(Gathered[k].timestamp)

\* C19: when a page request has failed, the bar loop does not run on the
\* pages gathered before the failure.
C19_NoRunOnPartialSeries == InLoop => ~fetch_failed
\* C21: with a sizing fraction 0 < f <= 1, a commission rate >= 0 and a
\* non-negative initial balance, cash is >= 0 after every bar step (after
\* the trade and the commission debit).
C21_CashNeverNegative ==
    (/\ Valued
     /\ RGT(position_size_pct, Zero)
     /\ RLE(position_size_pct, R(1))
     /\ RGE(commission_rate, Zero)
     /\ RGE(initial_balance, Zero)) =>
        RGE(current_balance, Zero)

\* C22: the request cursor strictly increases on every iteration that
\* appends a page, and the loop is left on the first empty page, the first
\* failure, or once the cursor has reached end; so the loop ends after
\* finitely many page requests.
C22_CursorAdvances ==
    [][/\ all_data' # all_data /\ all_data' # <<>> =>
             current_date' > current_date
       /\ (pc = "fetch" /\ pc' = "fetch") =>
             /\ current_date < end_date
             /\ Len(all_data') = Len(all_data) + 1
       /\ (pc = "fetch" /\ (fetch_failed' \/ ~(current_date < end_date))) =>
             pc' = "combine"]_vars

\* The exits alone, which the loop does take.
C22_LoopExits ==
    [][/\ (pc = "fetch" /\ pc' = "fetch") =>
             /\ current_date < end_date
             /\ Len(all_data') = Len(all_data) + 1
       /\ (pc = "fetch" /\ (fetch_failed' \/ ~(current_date < end_date))) =>
             pc' = "combine"]_vars
====
